---- MODULE Spec2Model ----
(***************************************************************************)
(* harmonic: error-aware selection of one downstream service out of a      *)
(* fixed service list.  The module models the ClusterState (service list,  *)
(* service count, error map, mutex), SelectService and its helpers from    *)
(* harmonic.go, and the retry loop of sample/harmonic_sample.go.           *)
(*                                                                         *)
(* The file that declares ClusterState, InitClusterState, IncrementError,  *)
(* ResetError, GetError, randomize, randomize64 and roundrobin is not part *)
(* of the sources at hand; those definitions follow the specification.     *)
(*                                                                         *)
(* Six specifications share the variables:                                 *)
(*   Spec        every exported operation is one atomic step; the inputs   *)
(*               of SelectService range over bounded sets;                 *)
(*   DriverSpec  the retry loop of the sample, with other callers          *)
(*               reporting errors and successes in between its steps;      *)
(*   ConcSpec    callers that run the operations statement by statement,   *)
(*               interleaved, synchronising on the mutex only;             *)
(*   FairConcSpec  ConcSpec under a fair scheduler;                        *)
(*   FirstTrySpec  first tries only, with larger error counts;             *)
(*   SearchSpec  findCeilIn alone, over arbitrary weight arrays.           *)
(* Indices are 0-based as in the Go code; servicelist is a TLA+ sequence,  *)
(* so position i of the code is servicelist[i + 1].                        *)
(***************************************************************************)
EXTENDS Integers, Sequences, FiniteSets, TLC

VARIABLES
    cs,        \* the ClusterState: servicelist, numservices, errormap, remutex
    initerr,   \* the error InitClusterState returned for the list it was given
    last,      \* Spec: the last completed operation, its inputs and its results
    drv,       \* DriverSpec: the retry loop of the sample
    pc,        \* ConcSpec: each caller's position
    frame,     \* ConcSpec: each caller's operation, arguments and locals
    incs,      \* ConcSpec: per service, IncrementError calls since its last ResetError
    panicked   \* ConcSpec: a runtime panic has happened

vars == <<cs, initerr, last, drv, pc, frame, incs, panicked>>

----------------------------------------------------------------------------
(* Bounds *)

\* longest service list
MaxServices == 3
\* largest error count a service is driven to
MaxErrors == 2
\* largest error count in FirstTrySpec, which runs first tries only
MaxCount == 4
\* largest weight in the arrays SearchSpec hands to findCeilIn
MaxWeight == 3

ServiceNames == <<"s0", "s1", "s2", "s3", "s4", "s5">>
Services == {ServiceNames[i] : i \in 1..MaxServices}

\* values passed as prevservice: a service name, or "" as on the first call
PrevServices == Services \cup {""}
\* values passed as retryindex: 0 is the first try, anything else a retry
RetryIndexes == {-1, 0, 1, 2}

Range(f) == {f[x] : x \in DOMAIN f}
MaxOf(S) == CHOOSE x \in S : \A y \in S : y <= x
Distinct(list) == \A i, j \in 1..Len(list) : list[i] = list[j] => i = j

NameIndex(svc) == CHOOSE i \in 1..Len(ServiceNames) : ServiceNames[i] = svc

\* Service names are opaque: lists are taken up to renaming, each new name
\* being the next unused one of ServiceNames.  Duplicates are kept.
Canonical(list) ==
    \A i \in 1..Len(list) :
        NameIndex(list[i]) <= 1 + MaxOf({0} \cup {NameIndex(list[j]) : j \in 1..(i - 1)})

Pools == {list \in UNION {[1..k -> Services] : k \in 0..MaxServices} : Canonical(list)}
DistinctPools == {list \in Pools : Len(list) >= 1 /\ Distinct(list)}

----------------------------------------------------------------------------
(* ClusterState *)

ErrEmpty == "harmonic: servicelist is empty"
ErrIndex == "harmonic: service index out of bounds"
\* the error of a construction from the empty list
ErrInvalidConfiguration == "InvalidConfiguration"

\* the zero value of the struct: no services, nil map, unlocked mutex
ZeroClusterState ==
    [servicelist |-> <<>>, numservices |-> 0, errormap |-> <<>>, remutex |-> FALSE]

InitClusterState(servicelist) ==
    IF Len(servicelist) = 0
    THEN [cs |-> ZeroClusterState, err |-> ErrInvalidConfiguration]
    ELSE [cs |-> [servicelist |-> servicelist,
                  numservices |-> Len(servicelist),
                  errormap |-> [svc \in Range(servicelist) |-> 0],
                  remutex |-> FALSE],
          err |-> "nil"]

\* cs.errormap[svc]: a Go map read, 0 for a key that is not there
ErrCnt(c, svc) == IF svc \in DOMAIN c.errormap THEN c.errormap[svc] ELSE 0

----------------------------------------------------------------------------
(* Helpers of SelectService *)

ISqrt(n) == CHOOSE r \in 0..n : r * r <= n /\ (r + 1) * (r + 1) > n
CeilDiv(a, b) == (a + b - 1) \div b

\* uint64(math.Floor(math.Pow(float64(1+errcnt), 1.5))): the integer square
\* root of (1+errcnt)^3, the value of the float64 expression for the counts
\* within the bounds
EffectiveErrNoOffset(errcnt) == ISqrt(errcnt * errcnt * errcnt)
EffectiveErrOffsetTwo(errcnt) == ISqrt((2 + errcnt) * (2 + errcnt) * (2 + errcnt))
EffectiveErr(errcnt) == ISqrt((1 + errcnt) * (1 + errcnt) * (1 + errcnt))

\* the first loop of the first try: the largest effective error
RECURSIVE MaxErrScan(_, _, _)
MaxErrScan(c, i, maxerr) ==
    IF i >= Len(c.servicelist)
    THEN maxerr
    ELSE LET effectiveerr == EffectiveErr(ErrCnt(c, c.servicelist[i + 1]))
         IN  MaxErrScan(c, i + 1, IF effectiveerr >= maxerr THEN effectiveerr ELSE maxerr)

MaxErr(c) == MaxErrScan(c, 0, 0)

\* math.Ceil(float64(maxerr) / float64(errcnt+1)): both operands are small
\* integers, so the float64 quotient rounds up as the exact one does
WeightSwapped(maxerr, errcnt) == CeilDiv(errcnt + 1, maxerr)
Weight(maxerr, errcnt) == CeilDiv(maxerr, errcnt + 1)

Weights(c, maxerr) ==
    [i \in 0..(c.numservices - 1) |-> Weight(maxerr, ErrCnt(c, c.servicelist[i + 1]))]

\* line 56 adding the previous weight, not the previous prefix sum
RECURSIVE PrefixAt(_, _)
PrefixAtNoCarry(weights, i) ==
    IF i = 0 THEN weights[i] ELSE weights[i] + weights[i - 1]
PrefixAt(weights, i) ==
    IF i = 0 THEN weights[i] ELSE weights[i] + PrefixAt(weights, i - 1)

Prefixes(weights) == [i \in DOMAIN weights |-> PrefixAt(weights, i)]

\* the last test of line 98 written with <
RECURSIVE findCeilInStrictFinal(_, _, _, _)
findCeilInStrictFinal(randx, prefixes, start, end) ==
    IF start >= end
    THEN IF randx < prefixes[start] THEN start ELSE -1
    ELSE LET mid == start + ((end - start) \div 2)
         IN  IF randx > prefixes[mid]
             THEN findCeilInStrictFinal(randx, prefixes, mid + 1, end)
             ELSE findCeilInStrictFinal(randx, prefixes, start, mid)
\* the test of line 91 written with >=
RECURSIVE findCeilInGE(_, _, _, _)
findCeilInGE(randx, prefixes, start, end) ==
    IF start >= end
    THEN IF randx <= prefixes[start] THEN start ELSE -1
    ELSE LET mid == start + ((end - start) \div 2)
         IN  IF randx >= prefixes[mid]
             THEN findCeilInGE(randx, prefixes, mid + 1, end)
             ELSE findCeilInGE(randx, prefixes, start, mid)
RECURSIVE findCeilIn(_, _, _, _)
findCeilIn(randx, prefixes, start, end) ==
    IF start >= end
    THEN IF randx <= prefixes[start] THEN start ELSE -1
    ELSE LET mid == start + ((end - start) \div 2)
         IN  IF randx > prefixes[mid]
             THEN findCeilIn(randx, prefixes, mid + 1, end)
             ELSE findCeilIn(randx, prefixes, start, mid)

getIndexedServiceOffByOne(c, index) ==
    IF index <= 0 \/ index >= c.numservices
    THEN [svc |-> "", err |-> ErrIndex]
    ELSE [svc |-> c.servicelist[index + 1], err |-> "nil"]
getIndexedService(c, index) ==
    IF index < 0 \/ index >= c.numservices
    THEN [svc |-> "", err |-> ErrIndex]
    ELSE [svc |-> c.servicelist[index + 1], err |-> "nil"]

\* the values a draw can return: min <= x < max
randomize(min, max) == min..(max - 1)
randomize64(min, max) == min..(max - 1)

roundrobin(max, prev) == (prev + 1) % max

\* the scan of the retry branch: the last position holding prevservice, or -1
RECURSIVE PrevScan(_, _, _, _)
PrevScan(c, prevservice, psi, prevserviceindex) ==
    IF psi >= Len(c.servicelist)
    THEN prevserviceindex
    ELSE PrevScan(c, prevservice, psi + 1,
                  IF c.servicelist[psi + 1] = prevservice THEN psi ELSE prevserviceindex)

PrevServiceIndexNeverFound(c, prevservice) == -1
\* line 70 starting the scan from position 0, not -1
PrevServiceIndexFromZero(c, prevservice) == PrevScan(c, prevservice, 0, 0)
PrevServiceIndex(c, prevservice) == PrevScan(c, prevservice, 0, -1)

----------------------------------------------------------------------------
(* SelectService: the set of results a call can return.  A result carries  *)
(* the branch taken and the locals computed on the way.                    *)

NoLocals == [maxerr |-> 0, weights |-> <<>>, prefixes |-> <<>>, index |-> -1]

Result(path, locals, r) ==
    [path |-> path, maxerr |-> locals.maxerr, weights |-> locals.weights,
     prefixes |-> locals.prefixes, index |-> locals.index,
     svc |-> r.svc, err |-> r.err]

\* line 41 and line 68
UniformResults(c, path, locals) ==
    {Result(path, [locals EXCEPT !.index = index], getIndexedService(c, index)) :
        index \in randomize(0, c.numservices)}

\* lines 51-68: prefix sums, the draw, the search and the fallback
WeightedResults(c, maxerr, weights) ==
    LET prefixes == Prefixes(weights)
        prlen == c.numservices - 1
        Locals(randx) == [maxerr |-> maxerr, weights |-> weights,
                          prefixes |-> prefixes,
                          index |-> findCeilIn(randx, prefixes, 0, prlen)]
        Results(locals) ==
            IF locals.index >= 0
            THEN {Result("weighted", locals, getIndexedService(c, locals.index))}
            ELSE UniformResults(c, "fallback", locals)
    IN  UNION {Results(Locals(randx)) : randx \in randomize64(1, prefixes[prlen] + 1)}

\* lines 26-68
SelectFirstTry(c) ==
    LET maxerr == MaxErr(c) IN
    IF maxerr = 1
    THEN UniformResults(c, "uniform", [NoLocals EXCEPT !.maxerr = maxerr])
    ELSE WeightedResults(c, maxerr, Weights(c, maxerr))

\* lines 69-78
SelectRetryNoRoundRobin(c, retryindex, prevservice) ==
    LET prevserviceindex == PrevServiceIndex(c, prevservice)
    IN  {Result("retry", [NoLocals EXCEPT !.index = prevserviceindex],
                getIndexedService(c, prevserviceindex))}
SelectRetry(c, retryindex, prevservice) ==
    LET prevserviceindex == PrevServiceIndex(c, prevservice)
        index == roundrobin(c.numservices, prevserviceindex)
    IN  {Result("retry", [NoLocals EXCEPT !.index = index], getIndexedService(c, index))}

\* lines 21-24
SelectSingle(c) ==
    {Result("single", [NoLocals EXCEPT !.index = 0], getIndexedService(c, 0))}

\* without the check of line 17 an empty list reaches roundrobin(0, -1) or
\* prefixes[-1]: a runtime panic
SelectServiceNoEmptyCheck(c, retryindex, prevservice) ==
    IF c.numservices = 0
    THEN {Result("panic", NoLocals, [svc |-> "", err |-> "panic"])}
    ELSE IF c.numservices = 1
    THEN SelectSingle(c)
    ELSE IF retryindex = 0
    THEN SelectFirstTry(c)
    ELSE SelectRetry(c, retryindex, prevservice)
\* the check of line 17 written as numservices <= 1
SelectServiceEmptyCheckOffByOne(c, retryindex, prevservice) ==
    IF c.numservices <= 1
    THEN {Result("empty", NoLocals, [svc |-> "", err |-> ErrEmpty])}
    ELSE IF retryindex = 0
    THEN SelectFirstTry(c)
    ELSE SelectRetry(c, retryindex, prevservice)
SelectService(c, retryindex, prevservice) ==
    IF c.numservices = 0
    THEN {Result("empty", NoLocals, [svc |-> "", err |-> ErrEmpty])}
    ELSE IF c.numservices = 1
    THEN SelectSingle(c)
    ELSE IF retryindex = 0
    THEN SelectFirstTry(c)
    ELSE SelectRetry(c, retryindex, prevservice)

\* the branches that take remutex (line 27)
TakesLock(c, retryindex) == c.numservices >= 2 /\ retryindex = 0

----------------------------------------------------------------------------
(* Error map operations, each one atomic step under the mutex *)

IncrementErrorMap(c, svc) == [c EXCEPT !.errormap[svc] = @ + 1]
ResetErrorMap(c, svc) == [c EXCEPT !.errormap[svc] = 0]

----------------------------------------------------------------------------
(* Spec: atomic operations on one ClusterState *)

NoDriver == [pc |-> "off", retryindex |-> 0, retrylimit |-> 0, svc |-> "", tried |-> <<>>]
Callers == {"c1", "c2"}
NoFrame == [op |-> "none"]

IdleRest ==
    /\ drv = NoDriver
    /\ pc = [p \in Callers |-> "off"]
    /\ frame = [p \in Callers |-> NoFrame]
    /\ incs = <<>>
    /\ panicked = FALSE

\* The caller builds its ClusterState with InitClusterState; when that fails
\* the only ClusterState it can hold is the zero value of the struct.
Init ==
    /\ \E servicelist \in Pools :
        /\ cs = InitClusterState(servicelist).cs
        /\ initerr = InitClusterState(servicelist).err
    /\ last = [op |-> "InitClusterState"]
    /\ IdleRest

DoSelectService ==
    \E retryindex \in RetryIndexes, prevservice \in PrevServices :
        /\ TakesLock(cs, retryindex) => ~cs.remutex
        /\ \E r \in SelectService(cs, retryindex, prevservice) :
            last' = [op |-> "SelectService", retryindex |-> retryindex,
                     prevservice |-> prevservice, path |-> r.path, maxerr |-> r.maxerr,
                     weights |-> r.weights, prefixes |-> r.prefixes,
                     index |-> r.index, svc |-> r.svc, err |-> r.err]
        /\ UNCHANGED <<cs, initerr, drv, pc, frame, incs, panicked>>

DoIncrementError ==
    \E svc \in DOMAIN cs.errormap :
        /\ ~cs.remutex
        /\ cs.errormap[svc] < MaxErrors
        /\ cs' = IncrementErrorMap(cs, svc)
        /\ last' = [op |-> "IncrementError", svc |-> svc]
        /\ UNCHANGED <<initerr, drv, pc, frame, incs, panicked>>

DoResetError ==
    \E svc \in DOMAIN cs.errormap :
        /\ ~cs.remutex
        /\ cs' = ResetErrorMap(cs, svc)
        /\ last' = [op |-> "ResetError", svc |-> svc, before |-> ErrCnt(cs, svc)]
        /\ UNCHANGED <<initerr, drv, pc, frame, incs, panicked>>

DoGetError ==
    \E svc \in DOMAIN cs.errormap :
        /\ ~cs.remutex
        /\ last' = [op |-> "GetError", svc |-> svc, errcnt |-> ErrCnt(cs, svc)]
        /\ UNCHANGED <<cs, initerr, drv, pc, frame, incs, panicked>>

Next == DoSelectService \/ DoIncrementError \/ DoResetError \/ DoGetError

Spec == Init /\ [][Next]_vars

----------------------------------------------------------------------------
(* DriverSpec: the retry loop of sample/harmonic_sample.go.  The loop runs *)
(* over a list of distinct names, as the sample's does; the empty list     *)
(* makes InitClusterState fail and main return.  Other callers increment   *)
(* and reset error counts between any two steps of the loop.               *)

DriverInit ==
    /\ \E servicelist \in DistinctPools \cup {<<>>} :
        /\ cs = InitClusterState(servicelist).cs
        /\ initerr = InitClusterState(servicelist).err
        /\ drv = [pc |-> IF InitClusterState(servicelist).err = "nil" THEN "loop" ELSE "done",
                  retryindex |-> 0, retrylimit |-> Len(servicelist) - 1,
                  svc |-> "", tried |-> <<>>]
    /\ last = [op |-> "InitClusterState"]
    /\ pc = [p \in Callers |-> "off"]
    /\ frame = [p \in Callers |-> NoFrame]
    /\ incs = <<>>
    /\ panicked = FALSE

\* lines 17-20: the loop test and the call of SelectService, its error dropped
DrvSelect ==
    /\ drv.pc = "loop"
    /\ drv.retryindex <= drv.retrylimit
    /\ TakesLock(cs, drv.retryindex) => ~cs.remutex
    /\ \E r \in SelectService(cs, drv.retryindex, drv.svc) :
        drv' = [drv EXCEPT !.pc = "request", !.svc = r.svc, !.tried = Append(@, r.svc)]
    /\ UNCHANGED <<cs, initerr, last, pc, frame, incs, panicked>>

\* line 17: the retry limit is exceeded
DrvExit ==
    /\ drv.pc = "loop"
    /\ drv.retryindex > drv.retrylimit
    /\ drv' = [drv EXCEPT !.pc = "done"]
    /\ UNCHANGED <<cs, initerr, last, pc, frame, incs, panicked>>

\* lines 23-26: the request succeeds or fails
DrvRequest ==
    /\ drv.pc = "request"
    /\ \E response \in {"SUCCESS", "FAIlED"} :
        drv' = [drv EXCEPT !.pc = IF response = "SUCCESS" THEN "reset" ELSE "increment"]
    /\ UNCHANGED <<cs, initerr, last, pc, frame, incs, panicked>>

\* lines 27-28
DrvReset ==
    /\ drv.pc = "reset"
    /\ ~cs.remutex
    /\ cs' = ResetErrorMap(cs, drv.svc)
    /\ drv' = [drv EXCEPT !.pc = "done"]
    /\ UNCHANGED <<initerr, last, pc, frame, incs, panicked>>

\* lines 30-31
DrvIncrement ==
    /\ drv.pc = "increment"
    /\ ~cs.remutex
    /\ cs' = IncrementErrorMap(cs, drv.svc)
    /\ drv' = [drv EXCEPT !.pc = "loop", !.retryindex = @ + 1]
    /\ UNCHANGED <<initerr, last, pc, frame, incs, panicked>>

OtherIncrementError ==
    \E svc \in DOMAIN cs.errormap :
        /\ drv.pc # "done"
        /\ ~cs.remutex
        /\ cs.errormap[svc] < MaxErrors
        /\ cs' = IncrementErrorMap(cs, svc)
        /\ UNCHANGED <<initerr, last, drv, pc, frame, incs, panicked>>

OtherResetError ==
    \E svc \in DOMAIN cs.errormap :
        /\ drv.pc # "done"
        /\ ~cs.remutex
        /\ cs' = ResetErrorMap(cs, svc)
        /\ UNCHANGED <<initerr, last, drv, pc, frame, incs, panicked>>

DriverNext ==
    \/ DrvSelect
    \/ DrvExit
    \/ DrvRequest
    \/ DrvReset
    \/ DrvIncrement
    \/ OtherIncrementError
    \/ OtherResetError

DriverSpec == DriverInit /\ [][DriverNext]_vars

----------------------------------------------------------------------------
(* ConcSpec: callers running the operations statement by statement.        *)
(* remutex is a sync.Mutex: Lock waits until it is unlocked, Unlock does   *)
(* not look at who locked it and panics when it is not locked.             *)
(* IncrementError, ResetError and GetError lock remutex, read or update    *)
(* the entry of the service, and unlock.  incs counts, per service, the    *)
(* IncrementError calls that returned since the last ResetError returned.  *)

ConcInit ==
    /\ \E servicelist \in DistinctPools \cup {<<>>} :
        /\ cs = InitClusterState(servicelist).cs
        /\ initerr = InitClusterState(servicelist).err
        /\ incs = [svc \in Range(servicelist) |-> 0]
    /\ last = [op |-> "InitClusterState"]
    /\ drv = NoDriver
    /\ pc = [p \in Callers |-> "idle"]
    /\ frame = [p \in Callers |-> NoFrame]
    /\ panicked = FALSE

Goto(p, label) == pc' = [pc EXCEPT ![p] = label]
Locked(c) == [c EXCEPT !.remutex = TRUE]
Unlocked(c) == [c EXCEPT !.remutex = FALSE]

\* IncrementError calls on svc that have started and not yet stored
Incrementing(svc) ==
    {p \in Callers : /\ pc[p] \in {"inc_lock", "inc_load", "inc_store"}
                     /\ frame[p].svc = svc}

CallIncrementError(p) ==
    /\ pc[p] = "idle"
    /\ \E svc \in DOMAIN cs.errormap :
        /\ cs.errormap[svc] + Cardinality(Incrementing(svc)) < MaxErrors
        /\ frame' = [frame EXCEPT ![p] = [op |-> "IncrementError", svc |-> svc]]
    /\ Goto(p, "inc_lock")
    /\ UNCHANGED <<cs, initerr, last, drv, incs, panicked>>

CallResetError(p) ==
    /\ pc[p] = "idle"
    /\ \E svc \in DOMAIN cs.errormap :
        frame' = [frame EXCEPT ![p] = [op |-> "ResetError", svc |-> svc]]
    /\ Goto(p, "rst_lock")
    /\ UNCHANGED <<cs, initerr, last, drv, incs, panicked>>

CallGetError(p) ==
    /\ pc[p] = "idle"
    /\ \E svc \in DOMAIN cs.errormap :
        frame' = [frame EXCEPT ![p] = [op |-> "GetError", svc |-> svc]]
    /\ Goto(p, "get_lock")
    /\ UNCHANGED <<cs, initerr, last, drv, incs, panicked>>

\* cs.remutex.Lock() of the three error map operations
LedgerLock(p) ==
    /\ pc[p] \in {"inc_lock", "rst_lock", "get_lock"}
    /\ ~cs.remutex
    /\ cs' = Locked(cs)
    /\ Goto(p, CASE pc[p] = "inc_lock" -> "inc_load"
                 [] pc[p] = "rst_lock" -> "rst_store"
                 [] pc[p] = "get_lock" -> "get_load")
    /\ UNCHANGED <<initerr, last, drv, frame, incs, panicked>>

\* cs.errormap[svc]++ is a read followed by a write
IncLoad(p) ==
    /\ pc[p] = "inc_load"
    /\ frame' = [frame EXCEPT ![p] =
                    [op |-> "IncrementError", svc |-> frame[p].svc,
                     errcnt |-> ErrCnt(cs, frame[p].svc)]]
    /\ Goto(p, "inc_store")
    /\ UNCHANGED <<cs, initerr, last, drv, incs, panicked>>

IncStore(p) ==
    /\ pc[p] = "inc_store"
    /\ cs' = [cs EXCEPT !.errormap[frame[p].svc] = frame[p].errcnt + 1]
    /\ Goto(p, "inc_unlock")
    /\ UNCHANGED <<initerr, last, drv, frame, incs, panicked>>

RstStore(p) ==
    /\ pc[p] = "rst_store"
    /\ cs' = ResetErrorMap(cs, frame[p].svc)
    /\ Goto(p, "rst_unlock")
    /\ UNCHANGED <<initerr, last, drv, frame, incs, panicked>>

GetLoad(p) ==
    /\ pc[p] = "get_load"
    /\ frame' = [frame EXCEPT ![p] =
                    [op |-> "GetError", svc |-> frame[p].svc,
                     errcnt |-> ErrCnt(cs, frame[p].svc)]]
    /\ Goto(p, "get_unlock")
    /\ UNCHANGED <<cs, initerr, last, drv, incs, panicked>>

\* cs.remutex.Unlock() and the return of the three error map operations
LedgerUnlock(p) ==
    /\ pc[p] \in {"inc_unlock", "rst_unlock", "get_unlock"}
    /\ cs' = Unlocked(cs)
    /\ panicked' = (panicked \/ ~cs.remutex)
    /\ incs' = CASE pc[p] = "inc_unlock" -> [incs EXCEPT ![frame[p].svc] = @ + 1]
                 [] pc[p] = "rst_unlock" -> [incs EXCEPT ![frame[p].svc] = 0]
                 [] pc[p] = "get_unlock" -> incs
    /\ frame' = [frame EXCEPT ![p] = NoFrame]
    /\ Goto(p, "idle")
    /\ UNCHANGED <<initerr, last, drv>>

\* lines 17-24 and 69-78: the calls that return without touching the mutex
CallSelectNoLock(p) ==
    /\ pc[p] = "idle"
    /\ \E retryindex \in RetryIndexes, prevservice \in PrevServices :
        /\ ~TakesLock(cs, retryindex)
        /\ \E r \in SelectService(cs, retryindex, prevservice) :
            frame' = [frame EXCEPT ![p] =
                         [op |-> "SelectService", path |-> r.path,
                          svc |-> r.svc, err |-> r.err]]
    /\ Goto(p, "sel_done")
    /\ UNCHANGED <<cs, initerr, last, drv, incs, panicked>>

\* line 26: a first try over two or more services
CallSelectFirstTry(p) ==
    /\ pc[p] = "idle"
    /\ TakesLock(cs, 0)
    /\ frame' = [frame EXCEPT ![p] = [op |-> "SelectService"]]
    /\ Goto(p, "sel_lock")
    /\ UNCHANGED <<cs, initerr, last, drv, incs, panicked>>

\* line 27 left out: the scan starts without the mutex
SelLockSkipped(p) ==
    /\ pc[p] = "sel_lock"
    /\ Goto(p, "sel_scan")
    /\ UNCHANGED <<cs, initerr, last, drv, frame, incs, panicked>>
\* line 27
SelLock(p) ==
    /\ pc[p] = "sel_lock"
    /\ ~cs.remutex
    /\ cs' = Locked(cs)
    /\ Goto(p, "sel_scan")
    /\ UNCHANGED <<initerr, last, drv, frame, incs, panicked>>

\* lines 30-40: the scan for maxerr, and the branch on it
SelScan(p) ==
    /\ pc[p] = "sel_scan"
    /\ frame' = [frame EXCEPT ![p] =
                    [op |-> "SelectService", maxerr |-> MaxErr(cs),
                     scanned |-> cs.errormap]]
    /\ Goto(p, IF MaxErr(cs) = 1 THEN "sel_uniform" ELSE "sel_weights")
    /\ UNCHANGED <<cs, initerr, last, drv, incs, panicked>>

\* line 41
SelUniform(p) ==
    /\ pc[p] = "sel_uniform"
    /\ \E r \in UniformResults(cs, "uniform", [NoLocals EXCEPT !.maxerr = frame[p].maxerr]) :
        frame' = [frame EXCEPT ![p] =
                     [op |-> "SelectService", path |-> r.path,
                      svc |-> r.svc, err |-> r.err]]
    /\ Goto(p, "sel_unlock")
    /\ UNCHANGED <<cs, initerr, last, drv, incs, panicked>>

\* lines 43-49 writing errcnt+1 back into the map while weighing
SelWeightsStoresBack(p) ==
    /\ pc[p] = "sel_weights"
    /\ frame' = [frame EXCEPT ![p] =
                    [op |-> "SelectService", maxerr |-> frame[p].maxerr,
                     scanned |-> frame[p].scanned,
                     weights |-> Weights(cs, frame[p].maxerr),
                     weighed |-> cs.errormap]]
    /\ cs' = [cs EXCEPT !.errormap = [svc \in DOMAIN cs.errormap |-> cs.errormap[svc] + 1]]
    /\ Goto(p, "sel_draw")
    /\ UNCHANGED <<initerr, last, drv, incs, panicked>>
\* lines 43-49: the weights, from a second read of the error map
SelWeights(p) ==
    /\ pc[p] = "sel_weights"
    /\ frame' = [frame EXCEPT ![p] =
                    [op |-> "SelectService", maxerr |-> frame[p].maxerr,
                     scanned |-> frame[p].scanned,
                     weights |-> Weights(cs, frame[p].maxerr),
                     weighed |-> cs.errormap]]
    /\ Goto(p, "sel_draw")
    /\ UNCHANGED <<cs, initerr, last, drv, incs, panicked>>

\* lines 51-68
SelDraw(p) ==
    /\ pc[p] = "sel_draw"
    /\ \E r \in WeightedResults(cs, frame[p].maxerr, frame[p].weights) :
        frame' = [frame EXCEPT ![p] =
                     [op |-> "SelectService", path |-> r.path,
                      svc |-> r.svc, err |-> r.err]]
    /\ Goto(p, "sel_unlock")
    /\ UNCHANGED <<cs, initerr, last, drv, incs, panicked>>

\* line 28 left out: the call returns with the mutex still locked
SelUnlockForgotten(p) ==
    /\ pc[p] = "sel_unlock"
    /\ frame' = [frame EXCEPT ![p] = NoFrame]
    /\ Goto(p, "idle")
    /\ UNCHANGED <<cs, initerr, last, drv, incs, panicked>>
\* line 28: the deferred Unlock runs as the call returns
SelUnlock(p) ==
    /\ pc[p] = "sel_unlock"
    /\ cs' = Unlocked(cs)
    /\ panicked' = (panicked \/ ~cs.remutex)
    /\ frame' = [frame EXCEPT ![p] = NoFrame]
    /\ Goto(p, "idle")
    /\ UNCHANGED <<initerr, last, drv, incs>>

SelReturn(p) ==
    /\ pc[p] = "sel_done"
    /\ frame' = [frame EXCEPT ![p] = NoFrame]
    /\ Goto(p, "idle")
    /\ UNCHANGED <<cs, initerr, last, drv, incs, panicked>>

ConcNext ==
    \E p \in Callers :
        \/ CallIncrementError(p)
        \/ CallResetError(p)
        \/ CallGetError(p)
        \/ LedgerLock(p)
        \/ IncLoad(p)
        \/ IncStore(p)
        \/ RstStore(p)
        \/ GetLoad(p)
        \/ LedgerUnlock(p)
        \/ CallSelectNoLock(p)
        \/ CallSelectFirstTry(p)
        \/ SelLock(p)
        \/ SelScan(p)
        \/ SelUniform(p)
        \/ SelWeights(p)
        \/ SelDraw(p)
        \/ SelUnlock(p)
        \/ SelReturn(p)

ConcSpec == ConcInit /\ [][ConcNext]_vars

\* FairConcSpec: ConcSpec under a fair scheduler.  A caller inside a call
\* keeps running, and a caller waiting in Lock gets the mutex if it is
\* unlocked again and again: a sync.Mutex hands the lock to a waiter that
\* has waited too long.  That is strong fairness of the caller's steps
\* inside a call; for the steps other than Lock, which no other caller can
\* disable, it is the same as weak fairness.  Nothing obliges a caller to
\* start a call.
Continue(p) ==
    \/ LedgerLock(p)
    \/ IncLoad(p)
    \/ IncStore(p)
    \/ RstStore(p)
    \/ GetLoad(p)
    \/ LedgerUnlock(p)
    \/ SelLock(p)
    \/ SelScan(p)
    \/ SelUniform(p)
    \/ SelWeights(p)
    \/ SelDraw(p)
    \/ SelUnlock(p)
    \/ SelReturn(p)

FairConcSpec ==
    /\ ConcInit
    /\ [][ConcNext]_vars
    /\ \A p \in Callers : SF_vars(Continue(p))

----------------------------------------------------------------------------
(* SearchSpec: findCeilIn on its own, called as line 61 calls it. Init     *)
(* draws the prefix sums of every array of 2..MaxServices weights in       *)
(* 1..MaxWeight and every draw of line 60; the one action searches.        *)

SearchInit ==
    /\ cs = ZeroClusterState
    /\ initerr = ErrInvalidConfiguration
    /\ \E k \in 2..MaxServices :
        \E weights \in [0..(k - 1) -> 1..MaxWeight] :
            LET prefixes == Prefixes(weights)
                prlen == k - 1
            IN  \E randx \in randomize64(1, prefixes[prlen] + 1) :
                    last = [op |-> "draw", weights |-> weights, prefixes |-> prefixes,
                            randx |-> randx, prlen |-> prlen]
    /\ IdleRest

DoFindCeilIn ==
    /\ last.op = "draw"
    /\ last' = [op |-> "findCeilIn", weights |-> last.weights,
                prefixes |-> last.prefixes, randx |-> last.randx, prlen |-> last.prlen,
                ceil |-> findCeilIn(last.randx, last.prefixes, 0, last.prlen)]
    /\ UNCHANGED <<cs, initerr, drv, pc, frame, incs, panicked>>

SearchNext == DoFindCeilIn

SearchSpec == SearchInit /\ [][SearchNext]_vars

----------------------------------------------------------------------------
(* FirstTrySpec: first tries only (retryindex 0) over a list of one or     *)
(* more services, with error counts driven up to MaxCount, where the       *)
(* rounding of the weights shows.                                          *)

FtInit ==
    /\ \E servicelist \in Pools :
        /\ Len(servicelist) >= 1
        /\ cs = InitClusterState(servicelist).cs
        /\ initerr = InitClusterState(servicelist).err
    /\ last = [op |-> "InitClusterState"]
    /\ IdleRest

FtSelectService ==
    /\ TakesLock(cs, 0) => ~cs.remutex
    /\ \E r \in SelectService(cs, 0, "") :
        last' = [op |-> "SelectService", retryindex |-> 0,
                 prevservice |-> "", path |-> r.path, maxerr |-> r.maxerr,
                 weights |-> r.weights, prefixes |-> r.prefixes,
                 index |-> r.index, svc |-> r.svc, err |-> r.err]
    /\ UNCHANGED <<cs, initerr, drv, pc, frame, incs, panicked>>

FtIncrementError ==
    \E svc \in DOMAIN cs.errormap :
        /\ ~cs.remutex
        /\ cs.errormap[svc] < MaxCount
        /\ cs' = IncrementErrorMap(cs, svc)
        /\ last' = [op |-> "IncrementError", svc |-> svc]
        /\ UNCHANGED <<initerr, drv, pc, frame, incs, panicked>>

FtResetError ==
    \E svc \in DOMAIN cs.errormap :
        /\ ~cs.remutex
        /\ cs' = ResetErrorMap(cs, svc)
        /\ last' = [op |-> "ResetError", svc |-> svc]
        /\ UNCHANGED <<initerr, drv, pc, frame, incs, panicked>>

FtNext == FtSelectService \/ FtIncrementError \/ FtResetError

FirstTrySpec == FtInit /\ [][FtNext]_vars

----------------------------------------------------------------------------
(* Properties of Spec *)

IsSelect == last.op = "SelectService"
IsFirstTry == IsSelect /\ last.retryindex = 0 /\ cs.numservices >= 2
IsRetry == IsSelect /\ last.retryindex > 0
Indexes == 0..(cs.numservices - 1)
SvcAt(i) == cs.servicelist[i + 1]
CntAt(i) == ErrCnt(cs, SvcAt(i))
AllZero == \A i \in Indexes : CntAt(i) = 0
PosOf(svc) == CHOOSE p \in Indexes : SvcAt(p) = svc

\* the number of draw values that select position i, for a prefix-sum array
Share(prefixes, i) ==
    LET prlen == cs.numservices - 1
    IN  Cardinality({randx \in 1..prefixes[prlen] : findCeilIn(randx, prefixes, 0, prlen) = i})

\* C1: on a retry (retryindex > 0) over a list of two or more distinct
\* services, with prevservice at position p, SelectService returns the service
\* at position (p + 1) mod numservices, whatever the error counts are.
C1_RetryRoundRobin ==
    (/\ IsRetry
     /\ cs.numservices >= 2
     /\ Distinct(cs.servicelist)
     /\ last.prevservice \in Range(cs.servicelist))
    => /\ last.err = "nil"
       /\ last.svc = SvcAt((PosOf(last.prevservice) + 1) % cs.numservices)

\* a retry from the last position of [s0, s1, s2] wraps to the first, with
\* errors recorded on the services
C1_Witness ==
    /\ IsRetry
    /\ cs.servicelist = <<"s0", "s1", "s2">>
    /\ last.prevservice = "s2"
    /\ last.svc = "s0"
    /\ \E i \in Indexes : CntAt(i) > 0

\* C2 as stated: on a retry over any list of more than one entry, duplicates
\* included, the service returned differs from prevservice when prevservice
\* occurs in the list.
C2_RetryNeverRepeats ==
    (/\ IsRetry
     /\ cs.numservices > 1
     /\ last.prevservice \in Range(cs.servicelist))
    => last.svc # last.prevservice

\* C2 amended: on such a retry the service returned equals prevservice exactly
\* when prevservice is both the first and the last entry of the list, which
\* takes duplicate names; over distinct names a retry never repeats.
C2_RetryRepeatsOnlyFirstLast ==
    (/\ IsRetry
     /\ cs.numservices > 1
     /\ last.prevservice \in Range(cs.servicelist))
    => /\ last.err = "nil"
       /\ (last.svc = last.prevservice)
            <=> (/\ SvcAt(0) = last.prevservice
                 /\ SvcAt(cs.numservices - 1) = last.prevservice)
       /\ Distinct(cs.servicelist) => last.svc # last.prevservice

\* a retry over a list with a duplicate name that moves on to another service,
\* and one over distinct names
C2_Witness ==
    /\ IsRetry
    /\ cs.numservices = 3
    /\ ~Distinct(cs.servicelist)
    /\ last.prevservice \in Range(cs.servicelist)
    /\ last.svc # last.prevservice

\* C4: in a first try over two or more services where position i has an
\* error count >= 1 and position j has error count 0, the weight of j equals
\* maxerr and is the largest weight, the weight of i is strictly smaller, and
\* strictly fewer draw values select i than j.
C4_FailedWeighsLess ==
    IsFirstTry =>
        \A i, j \in Indexes :
            (CntAt(i) >= 1 /\ CntAt(j) = 0)
            => /\ last.path = "weighted"
               /\ last.weights[j] = last.maxerr
               /\ \A k \in Indexes : last.weights[k] <= last.weights[j]
               /\ last.weights[i] < last.weights[j]
               /\ Share(last.prefixes, i) < Share(last.prefixes, j)

\* a first try over three services, one failed twice, one once, one healthy
C4_Witness ==
    /\ IsFirstTry
    /\ cs.numservices = 3
    /\ \E i, j, k \in Indexes : CntAt(i) = 2 /\ CntAt(j) = 1 /\ CntAt(k) = 0
    /\ last.path = "weighted"

\* C5: right after ResetError(svc), whatever the count of svc was before, its
\* count is 0, and every result a first try can then return gives each
\* position of svc the weight of every other position with count 0; the
\* uniform branch is taken exactly when all counts are 0.
C5_ResetRestoresParity ==
    (last.op = "ResetError") =>
        /\ ErrCnt(cs, last.svc) = 0
        /\ cs.numservices >= 2 =>
            \A r \in SelectService(cs, 0, "") :
                /\ (r.path = "uniform") <=> AllZero
                /\ r.path # "uniform" =>
                    \A i, j \in Indexes :
                        (SvcAt(i) = last.svc /\ CntAt(j) = 0)
                        => r.weights[i] = r.weights[j]

\* a service that had reached MaxErrors is reset while another service still
\* has errors and a third has none
C5_Witness ==
    /\ last.op = "ResetError"
    /\ last.before = MaxErrors
    /\ cs.numservices = 3
    /\ \E i, j \in Indexes :
        /\ SvcAt(i) # last.svc /\ CntAt(i) >= 1
        /\ SvcAt(j) # last.svc /\ CntAt(j) = 0

\* C6: in a first try over two or more services, maxerr = 1 exactly when all
\* error counts are 0; exactly then the uniform branch is taken, whose draw
\* has one value for each position; otherwise the weighted branch is taken.
C6_UniformIffNoErrors ==
    IsFirstTry =>
        /\ (last.maxerr = 1) <=> AllZero
        /\ (last.path = "uniform") <=> (last.maxerr = 1)
        /\ ~AllZero => last.path = "weighted"
        /\ last.path = "uniform" =>
            LET results == SelectService(cs, 0, last.prevservice)
            IN  /\ {r.index : r \in results} = Indexes
                /\ \A r \in results : r.err = "nil" /\ r.svc = SvcAt(r.index)
                /\ Cardinality(randomize(0, cs.numservices)) = cs.numservices
                /\ last.index \in Indexes /\ last.svc = SvcAt(last.index)

\* a uniform first try over three services that returned the last one
C6_Witness ==
    /\ IsFirstTry
    /\ cs.numservices = 3
    /\ AllZero
    /\ last.path = "uniform"
    /\ last.index = 2

\* C7: over a list of one service SelectService returns that service and no
\* error, for every retryindex, prevservice and error count.
C7_SingleService ==
    (IsSelect /\ cs.numservices = 1)
    => last.svc = SvcAt(0) /\ last.err = "nil"

\* a retry call naming no previous service, on a single service with errors
C7_Witness ==
    /\ IsSelect
    /\ cs.numservices = 1
    /\ last.retryindex = 2
    /\ last.prevservice = ""
    /\ CntAt(0) = MaxErrors
    /\ last.svc = "s0"

\* C8: over a ClusterState with no services SelectService returns the
\* "servicelist is empty" error and no service, for every retryindex and
\* prevservice.
C8_NoEndpoints ==
    (IsSelect /\ cs.numservices = 0)
    => last.err = ErrEmpty /\ last.svc = ""

\* a retry call on the empty ClusterState
C8_Witness ==
    /\ IsSelect
    /\ cs.numservices = 0
    /\ last.retryindex # 0
    /\ last.prevservice = "s1"
    /\ last.err = ErrEmpty

\* C12: InitClusterState succeeds for every non-empty list, with numservices
\* the length of the list and every error count 0, and fails with
\* InvalidConfiguration for the empty list, leaving no ClusterState but the
\* zero value; no ClusterState it built makes SelectService return the
\* "servicelist is empty" error.
C12_Construct ==
    /\ last.op = "InitClusterState" => \A servicelist \in Pools :
        LET made == InitClusterState(servicelist) IN
        IF Len(servicelist) = 0
        THEN made.err = ErrInvalidConfiguration /\ made.cs = ZeroClusterState
        ELSE /\ made.err = "nil"
             /\ made.cs.servicelist = servicelist
             /\ made.cs.numservices = Len(servicelist)
             /\ DOMAIN made.cs.errormap = Range(servicelist)
             /\ \A svc \in Range(servicelist) : made.cs.errormap[svc] = 0
    /\ initerr = "nil" =>
        /\ cs.numservices = Len(cs.servicelist)
        /\ cs.numservices >= 1
        /\ last.op = "InitClusterState" => cs = InitClusterState(cs.servicelist).cs
        /\ IsSelect => (last.err = "nil" /\ last.path # "empty")
    /\ initerr # "nil" => (initerr = ErrInvalidConfiguration /\ cs = ZeroClusterState)

\* a call on a constructed single-service ClusterState that has errors
C12_Witness ==
    /\ initerr = "nil"
    /\ cs.numservices = 1
    /\ IsSelect
    /\ last.retryindex = 0
    /\ last.err = "nil"
    /\ CntAt(0) = MaxErrors

\* C16: for a list of one or more services, whatever retryindex, prevservice
\* (in the list or not) and error counts, the index SelectService hands to
\* getIndexedService is in 0..numservices-1, so the error is never the index
\* error and the result is the service at that index; and no result the call
\* can return comes from the fallback after a search that returned -1.
C16_DefensivePathsUnreachable ==
    (IsSelect /\ cs.numservices >= 1) =>
        /\ last.index \in Indexes
        /\ last.err = "nil"
        /\ last.svc = SvcAt(last.index)
        /\ last.svc \in Range(cs.servicelist)
        /\ last.path \in {"single", "uniform", "weighted", "retry"}
        /\ \A r \in SelectService(cs, last.retryindex, last.prevservice) :
            r.path # "fallback" /\ r.err # ErrIndex /\ r.index \in Indexes

\* the largest draw of a weighted first try: the search ends at the last index
C16_Witness ==
    /\ IsSelect
    /\ cs.numservices = 3
    /\ last.retryindex = 0
    /\ last.path = "weighted"
    /\ CntAt(2) = MaxErrors
    /\ last.index = 2

\* C17: on a retry (retryindex # 0) over two or more services with a
\* prevservice that is not in the list, the empty string included, the scan
\* leaves the previous position at -1, and the call returns the service at
\* position (-1 + 1) mod numservices = 0 with no error.
C17_UnknownPrevStartsAtZero ==
    (/\ IsSelect
     /\ last.retryindex # 0
     /\ cs.numservices >= 2
     /\ last.prevservice \notin Range(cs.servicelist)) =>
        /\ PrevServiceIndex(cs, last.prevservice) = -1
        /\ last.path = "retry"
        /\ last.index = 0
        /\ last.svc = SvcAt(0)
        /\ last.err = "nil"

\* a retry after the empty string over three services, position 0 failed
C17_Witness ==
    /\ IsSelect
    /\ last.retryindex = 2
    /\ last.prevservice = ""
    /\ cs.numservices = 3
    /\ CntAt(0) = MaxErrors
    /\ last.index = 0
    /\ last.err = "nil"

----------------------------------------------------------------------------
(* Properties of DriverSpec *)

Tried(svc) == {k \in 1..Len(drv.tried) : drv.tried[k] = svc}
AllFailed == drv.pc = "done" /\ drv.retryindex > drv.retrylimit

\* C3: in the retry loop over a list of distinct services no service is
\* selected twice, and a run in which all numservices attempts fail (retry
\* limit numservices - 1) has selected every service exactly once, whichever
\* service the first try drew and whatever other callers did to the error map.
C3_EveryServiceTriedOnce ==
    /\ \A i \in Indexes : Cardinality(Tried(SvcAt(i))) <= 1
    /\ (AllFailed /\ initerr = "nil") =>
        /\ Len(drv.tried) = cs.numservices
        /\ \A i \in Indexes : Cardinality(Tried(SvcAt(i))) = 1

\* three failed attempts that started at s1 and wrapped around, with another
\* caller having reset s1 and pushed s0 to MaxErrors meanwhile
C3_Witness ==
    /\ AllFailed
    /\ drv.tried = <<"s1", "s2", "s0">>
    /\ cs.errormap["s1"] = 0
    /\ cs.errormap["s0"] > MaxErrors

----------------------------------------------------------------------------
(* Properties of ConcSpec *)

\* C9: under any interleaving of IncrementError, ResetError, GetError and
\* first-try SelectService calls nothing panics, no count is negative, and
\* whenever the mutex is free each service's count is the number of
\* IncrementError calls on it that returned since the last ResetError on it
\* returned; the value GetError is about to return and the counts a first try
\* has scanned are those numbers too.
C9_NoLostUpdate ==
    /\ ~panicked
    /\ \A svc \in DOMAIN cs.errormap : cs.errormap[svc] >= 0
    /\ ~cs.remutex => cs.errormap = incs
    /\ \A p \in Callers :
        /\ pc[p] = "get_unlock" => frame[p].errcnt = incs[frame[p].svc]
        /\ pc[p] \in {"sel_uniform", "sel_weights", "sel_draw"} => frame[p].scanned = incs

\* two IncrementError calls on s0 have returned, a GetError on s0 has read 2,
\* and the other caller waits for the mutex to increment s1
C9_Witness ==
    /\ cs.numservices = 2
    /\ incs["s0"] = 2
    /\ pc["c1"] = "get_unlock"
    /\ frame["c1"].svc = "s0"
    /\ frame["c1"].errcnt = 2
    /\ pc["c2"] = "inc_lock"

\* C10: a first try works on one snapshot of the error map: from the end of
\* the maxerr scan to the end of the weight and prefix computation the error
\* map is the one the scan read, the weight pass reads the same counts, and
\* every weight is at least 1 and at most maxerr.
C10_ConsistentSnapshot ==
    \A p \in Callers :
        /\ pc[p] \in {"sel_uniform", "sel_weights", "sel_draw"} =>
            cs.errormap = frame[p].scanned
        /\ pc[p] = "sel_draw" =>
            /\ frame[p].weighed = frame[p].scanned
            /\ \A i \in DOMAIN frame[p].weights :
                /\ 1 <= frame[p].weights[i]
                /\ frame[p].weights[i] <= frame[p].maxerr

\* a first try has computed its weights while the other caller, which asked
\* to increment a service, waits for the mutex
C10_Witness ==
    /\ pc["c1"] = "sel_draw"
    /\ frame["c1"].maxerr > 1
    /\ pc["c2"] = "inc_lock"
    /\ cs.remutex

\* the positions of a caller inside SelectService
SelectPcs ==
    {"sel_lock", "sel_scan", "sel_uniform", "sel_weights", "sel_draw", "sel_unlock", "sel_done"}

\* a step taken by a SelectService call of caller p
SelectStep(p) == pc'[p] # pc[p] /\ (pc[p] \in SelectPcs \/ pc'[p] \in SelectPcs)

\* C11: no step of a SelectService call, on any path and whatever it returns,
\* changes the service list, the service count or an error count.
C11_SelectServiceReadOnly ==
    [][(\E p \in Callers : SelectStep(p))
        => /\ cs'.servicelist = cs.servicelist
           /\ cs'.numservices = cs.numservices
           /\ cs'.errormap = cs.errormap]_vars

\* a weighted first try is about to return while the error map holds errors
C11_Witness ==
    /\ pc["c1"] = "sel_unlock"
    /\ frame["c1"].path = "weighted"
    /\ cs.numservices = 3
    /\ cs.errormap["s1"] = MaxErrors
    /\ cs.errormap["s0"] = 0

----------------------------------------------------------------------------
(* Properties of SearchSpec *)

\* the index a scan from the left stops at: the first prefix sum >= randx
LinearCeil(randx, prefixes) ==
    LET hits == {i \in DOMAIN prefixes : prefixes[i] >= randx}
    IN  IF hits = {} THEN -1 ELSE CHOOSE i \in hits : \A j \in hits : i <= j

\* C13: for the prefix sums of two or more weights >= 1 and a draw randx with
\* 1 <= randx <= the last prefix sum, findCeilIn(randx, prefixes, 0, count - 1)
\* returns the smallest index whose prefix sum is >= randx, as a scan from the
\* left does, and never -1.
C13_FindCeilIsCeiling ==
    (last.op = "findCeilIn") =>
        /\ 1 <= last.randx /\ last.randx <= last.prefixes[last.prlen]
        /\ last.ceil # -1
        /\ last.ceil \in DOMAIN last.prefixes
        /\ last.prefixes[last.ceil] >= last.randx
        /\ \A i \in DOMAIN last.prefixes : i < last.ceil => last.prefixes[i] < last.randx
        /\ last.ceil = LinearCeil(last.randx, last.prefixes)

\* three unequal weights, the draw falling on the boundary of the middle one
C13_Witness ==
    /\ last.op = "findCeilIn"
    /\ DOMAIN last.weights = 0..2
    /\ last.weights[0] = 2 /\ last.weights[1] = 1 /\ last.weights[2] = 3
    /\ last.randx = 3
    /\ last.ceil = 1

----------------------------------------------------------------------------
(* Properties of FirstTrySpec *)

IsWeighted == IsFirstTry /\ last.path = "weighted"

RECURSIVE SumTo(_, _)
SumTo(weights, i) == IF i < 0 THEN 0 ELSE weights[i] + SumTo(weights, i - 1)

\* the values line 60 can draw
Draws == randomize64(1, last.prefixes[cs.numservices - 1] + 1)

\* C14: in the weighted branch the last prefix sum is the sum of all weights,
\* the draw ranges over exactly 1..that sum, every draw selects a position of
\* the list, and for every position i the number of draws that select i is
\* weights[i].
C14_DrawSharesAreWeights ==
    IsWeighted =>
        LET prlen == cs.numservices - 1
            totalWeight == SumTo(last.weights, prlen)
        IN  /\ last.prefixes[prlen] = totalWeight
            /\ Draws = 1..totalWeight
            /\ \A randx \in Draws : findCeilIn(randx, last.prefixes, 0, prlen) \in Indexes
            /\ \A i \in Indexes :
                Cardinality({randx \in Draws :
                    findCeilIn(randx, last.prefixes, 0, prlen) = i}) = last.weights[i]

\* three services with counts 0, 1 and MaxCount: three unequal weights
C14_Witness ==
    /\ IsWeighted
    /\ cs.numservices = 3
    /\ CntAt(0) = 0 /\ CntAt(1) = 1 /\ CntAt(2) = MaxCount
    /\ last.weights[0] > last.weights[1] /\ last.weights[1] > last.weights[2]
    /\ last.index = 2

\* C15 as stated: in every weighted first try a position with more errors
\* than another has a strictly smaller weight.
C15_WeightsStrictlyDecrease ==
    IsWeighted =>
        \A a, b \in Indexes : CntAt(a) > CntAt(b) => last.weights[a] < last.weights[b]

\* C15: in every weighted first try the weight of position i is
\* ceil(maxerr / (count + 1)); a position with more errors than another never
\* has a larger weight, and has a strictly smaller one when the other has no
\* errors; two different nonzero counts can round to the same weight.
C15_WeightsNeverIncrease ==
    IsWeighted =>
        /\ \A i \in Indexes : last.weights[i] = CeilDiv(last.maxerr, CntAt(i) + 1)
        /\ \A a, b \in Indexes :
            CntAt(a) > CntAt(b)
            => /\ last.weights[a] <= last.weights[b]
               /\ CntAt(b) = 0 => last.weights[a] < last.weights[b]

\* counts 3 and 4: maxerr 11, weights ceil(11/4) = ceil(11/5) = 3
C15_Witness ==
    /\ IsWeighted
    /\ \E a, b \in Indexes :
        /\ CntAt(a) = 4 /\ CntAt(b) = 3
        /\ last.weights[a] = last.weights[b]

\* C18: whatever error counts IncrementError and ResetError have left, on a
\* first try over two or more services every weight is >= 1, the prefix sums
\* are strictly increasing, and every position of the list is the index of
\* some result the first try can return, each with its service and no error.
C18_NoServiceStarved ==
    IsFirstTry =>
        /\ last.path \in {"uniform", "weighted"}
        /\ last.path = "weighted" =>
            /\ \A i \in Indexes : last.weights[i] >= 1
            /\ \A i \in Indexes : i >= 1 => last.prefixes[i - 1] < last.prefixes[i]
        /\ {r.index : r \in SelectService(cs, 0, "")} = Indexes
        /\ \A r \in SelectService(cs, 0, "") : r.err = "nil" /\ r.svc = SvcAt(r.index)

\* the service with MaxCount errors is selected while the others have none
C18_Witness ==
    /\ IsWeighted
    /\ cs.numservices = 3
    /\ CntAt(0) = MaxCount /\ CntAt(1) = 0 /\ CntAt(2) = 0
    /\ last.index = 0
    /\ last.weights[0] < last.weights[1]

----------------------------------------------------------------------------
(* Properties of FairConcSpec *)

\* the callers between a Lock and the Unlock that follows it
LedgerHolders ==
    {p \in Callers : pc[p] \in {"inc_load", "inc_store", "inc_unlock", "rst_store",
                               "rst_unlock", "get_load", "get_unlock"}}
SelectHolders ==
    {p \in Callers : pc[p] \in {"sel_scan", "sel_uniform", "sel_weights", "sel_draw",
                               "sel_unlock"}}

\* remutex is locked exactly when one call that locked it has not yet
\* returned; a mutex no error map operation holds is held by a first try in
\* progress; no Unlock meets an unlocked mutex
LockHasHolder ==
    /\ cs.remutex <=> Cardinality(LedgerHolders \cup SelectHolders) = 1
    /\ Cardinality(LedgerHolders \cup SelectHolders) <= 1
    /\ (cs.remutex /\ LedgerHolders = {}) => SelectHolders # {}
    /\ ~panicked

\* the return of a first try leaves remutex unlocked, whichever branch it
\* took; a call on the empty, single or retry path leaves remutex as it is
SelectReleases(p) ==
    /\ (pc[p] = "sel_unlock" /\ pc'[p] = "idle") => ~cs'.remutex
    /\ (pc[p] # pc'[p] /\ (pc[p] = "sel_done" \/ pc'[p] = "sel_done"))
        => (cs'.remutex = cs.remutex /\ p \notin SelectHolders)

\* C19: the mutex a first try locks is unlocked when the call returns on any
\* of its branches, the calls on the empty, single and retry paths never
\* touch it, so the mutex is never left locked by a call that has returned;
\* and under fair scheduling every IncrementError, ResetError, GetError and
\* SelectService call that has started returns.
C19_SelectServiceNeverBlocks ==
    /\ []LockHasHolder
    /\ [][\A p \in Callers : SelectReleases(p)]_vars
    /\ \A p \in Callers : (pc[p] # "idle") ~> (pc[p] = "idle")

\* a first try waits in Lock while an IncrementError holds the mutex
C19_Witness ==
    /\ cs.numservices = 3
    /\ pc["c1"] = "sel_lock"
    /\ pc["c2"] = "inc_store"
    /\ cs.remutex

====
